---- MODULE Spec2Model ----
\* A state-machine model of gochain: the badger-backed chain store, the
\* proof-of-work engine, the transaction / UTXO model and the CLI commands
\* that drive them.
\*
\* Byte strings are sequences of symbolic units.  A digest is a byte string
\* of one unit <<tag, preimage>>: hashing is collision free, and the digest
\* of a value is not the value.  An int64 in big-endian form is one unit
\* <<"int64", n>>.  A nil and an empty byte slice are both << >> (the code
\* only ever takes len() of them or compares them with bytes.Compare).
EXTENDS Integers, Sequences, FiniteSets, TLC

\* ------------------------------------------------------------------ bounds
\* number of wallets in the wallets file
NumWallets == 2
\* largest number of blocks the chain is allowed to grow to
MaxBlocks == 3
\* the -amount values a send command is tried with
Amounts == {30, 100, 150, 1000}

\* ------------------------------------------------------ program constants
\* width of a sha256 digest in bits (256 in the code, scaled)
HashBits == 6
\* const Difficulty (18 in the code, scaled with HashBits)
Difficulty == 2
\* math.MaxInt64, the end of the nonce search (scaled)
MaxInt64 == 31
\* the coinbase reward
Reward == 100
\* wallet.checksumLen
checksumLen == 4
\* wallet.version
version == 0
\* the CHECKSUM_LENGTH environment variable read by Lock and getBalance
EnvChecksumLength == 4

Wallets == 1..NumWallets

\* ---------------------------------------------------------- small helpers
RECURSIVE Pow2(_)
Pow2(n) == IF n = 0 THEN 1 ELSE 2 * Pow2(n - 1)

RECURSIVE SumSeq(_)
SumSeq(s) == IF Len(s) = 0 THEN 0 ELSE Head(s) + SumSeq(Tail(s))

RECURSIVE Concat(_)
Concat(ss) == IF Len(ss) = 0 THEN << >> ELSE Head(ss) \o Concat(Tail(ss))

RECURSIVE Perms(_)
Perms(S) ==
    IF S = {} THEN { << >> }
    ELSE UNION { { <<x>> \o p : p \in Perms(S \ {x}) } : x \in S }

\* ------------------------------------------------------------ primitives
\* sha256.Sum256: a one-unit digest that determines its preimage.
Sum256(data) == << <<"sha256", data>> >>

\* binary.Write(&buffer, binary.BigEndian, num)
ToBytes(num) == << <<"int64", num>> >>

\* base58.Encode / base58.Decode
Base58Encode(bytes) == <<"base58", bytes>>
Base58Decode(str) == str[2]

\* ---------------------------------------------------------------- wallet
\* The key pair of wallet w (GenerateKeyPair: X bytes followed by Y bytes).
PublicKey(w) == << <<"pubkey", w>> >>
PrivateKey(w) == <<"privkey", w>>

GeneratePublicKeyHash(pubKey) == << <<"ripemd160", Sum256(pubKey)>> >>

GenerateChecksum(payload) ==
    [i \in 1..checksumLen |-> <<"checksum", i, Sum256(Sum256(payload))>>]

Address(w) ==
    LET pubHash == GeneratePublicKeyHash(PublicKey(w))
        vHash == << <<"version", version>> >> \o pubHash
        finalHash == vHash \o GenerateChecksum(vHash)
    IN Base58Encode(finalHash)

\* The wallets file: address -> wallet.
WalletOf(address) == CHOOSE w \in Wallets : Address(w) = address

\* --------------------------------------------------------------- outputs
\* A Lock that strips the checksum but keeps the version byte.
LockKeepVersion(address) ==
    LET pubKeyHash == Base58Decode(address)
    IN SubSeq(pubKeyHash, 1, Len(pubKeyHash) - EnvChecksumLength)

\* TxOutput.Lock: address[1 : len-checksumLen] of the decoded address.
Lock(address) ==
    LET pubKeyHash == Base58Decode(address)
    IN SubSeq(pubKeyHash, 2, Len(pubKeyHash) - EnvChecksumLength)

NewTXOutput(value, address) == [Value |-> value, PubKeyHash |-> Lock(address)]

IsLockedWithKey(out, pubKeyHash) == out.PubKeyHash = pubKeyHash

UsesKey(in, pubKeyHash) == GeneratePublicKeyHash(in.PubKey) = pubKeyHash

\* ---------------------------------------------------------- transactions
\* gob encoding of a Transaction
TxSerialize(tx) == << <<"gobTx", tx.ID, tx.Inputs, tx.Outputs>> >>

\* GenerateHash hashing the transaction with its ID left in place.
GenerateHashKeepID(tx) == Sum256(TxSerialize(tx))

GenerateHash(tx) == Sum256(TxSerialize([tx EXCEPT !.ID = << >>]))

\* SetID hashes the encoding of the transaction as it stands (ID nil).
SetID(tx) == [tx EXCEPT !.ID = Sum256(TxSerialize(tx))]

\* CoinbaseTx locking the reward to the decoded address as it is.
CoinbaseTxRawLock(to, data) ==
    SetID([ID |-> << >>,
           Inputs |-> <<[ID |-> << >>, Out |-> -1, Signature |-> << >>,
                         PubKey |-> << <<"string", data>> >>]>>,
           Outputs |-> <<[Value |-> Reward,
                          PubKeyHash |-> Base58Decode(to)]>>])

CoinbaseTx(to, data) ==
    LET d == IF data = "" THEN <<"Coins to", to>> ELSE data
        txIn == [ID |-> << >>, Out |-> -1, Signature |-> << >>,
                 PubKey |-> << <<"string", d>> >>]
        txOut == NewTXOutput(Reward, to)
    IN SetID([ID |-> << >>, Inputs |-> <<txIn>>, Outputs |-> <<txOut>>])

IsCoinbase(tx) ==
    /\ Len(tx.Inputs) = 1
    /\ Len(tx.Inputs[1].ID) = 0
    /\ tx.Inputs[1].Out = -1

\* TrimmedCopy: inputs without signature and key; copy(newTx.Outputs,
\* tx.Outputs) copies min(len(dst), len(src)) = 0 elements into the nil
\* destination, so the copy has no outputs.
TrimmedCopy(tx) ==
    [ID |-> << >>,
     Inputs |-> [i \in 1..Len(tx.Inputs) |->
                    [ID |-> tx.Inputs[i].ID, Out |-> tx.Inputs[i].Out,
                     Signature |-> << >>, PubKey |-> << >>]],
     Outputs |-> SubSeq(tx.Outputs, 1, 0)]

\* ecdsa.Sign / ecdsa.Verify
EcdsaSign(privKey, digest) == << <<"ecdsa", privKey[2], digest>> >>
EcdsaVerify(pubKey, digest, sig) ==
    /\ Len(pubKey) = 1
    /\ pubKey[1][1] = "pubkey"
    /\ sig = << <<"ecdsa", pubKey[1][2], digest>> >>

\* prevTXs[hex.EncodeToString(id)]: the zero Transaction for a missing key.
PrevTX(prevTXs, id) ==
    IF id \in DOMAIN prevTXs THEN prevTXs[id]
    ELSE [ID |-> << >>, Inputs |-> << >>, Outputs |-> << >>]

\* The first loop of Sign and of Verify: an input whose transaction in
\* prevTXs has a nil ID makes the call panic.
MissingPrev(tx, prevTXs) ==
    \E i \in 1..Len(tx.Inputs) : Len(PrevTX(prevTXs, tx.Inputs[i].ID).ID) = 0

\* The digest of the trimmed copy as it is, the same for every input.
InputDigestAggregate(tx, i, prevTXs) == GenerateHash(TrimmedCopy(tx))

\* The digest Sign and Verify compute for input i (prevTXs: ID -> tx;
\* output indices are 0-based in the code, sequences 1-based here).
InputDigest(tx, i, prevTXs) ==
    LET txCopy == TrimmedCopy(tx)
        prevTX == PrevTX(prevTXs, txCopy.Inputs[i].ID)
        withKey == [txCopy EXCEPT !.Inputs[i].PubKey =
                       prevTX.Outputs[txCopy.Inputs[i].Out + 1].PubKeyHash]
    IN GenerateHash(withKey)

Sign(tx, privKey, prevTXs) ==
    IF IsCoinbase(tx) THEN tx
    ELSE [tx EXCEPT !.Inputs =
            [i \in 1..Len(tx.Inputs) |->
                [tx.Inputs[i] EXCEPT !.Signature =
                    EcdsaSign(privKey, InputDigest(tx, i, prevTXs))]]]

\* Verify checking the signature and key the first input of the
\* transaction carries, and no other input.
VerifyFirstInputOnly(tx, prevTXs) ==
    \/ IsCoinbase(tx)
    \/ EcdsaVerify(tx.Inputs[1].PubKey, InputDigest(tx, 1, prevTXs),
                   tx.Inputs[1].Signature)

\* Verify checking, for every input, the signature and key the input of
\* the transaction carries.
VerifyOriginalInputs(tx, prevTXs) ==
    \/ IsCoinbase(tx)
    \/ \A i \in 1..Len(tx.Inputs) :
          EcdsaVerify(tx.Inputs[i].PubKey, InputDigest(tx, i, prevTXs),
                      tx.Inputs[i].Signature)

\* Verify ranges over the inputs of the trimmed copy: the r, s, x and y it
\* hands to ecdsa.Verify are unpacked from that copy's Signature and PubKey.
Verify(tx, prevTXs) ==
    \/ IsCoinbase(tx)
    \/ \A i \in 1..Len(tx.Inputs) :
          LET in == TrimmedCopy(tx).Inputs[i]
          IN EcdsaVerify(in.PubKey, InputDigest(tx, i, prevTXs), in.Signature)

\* ----------------------------------------------------------------- block
\* HashTransactions hashing the id of the first transaction only.
HashTransactionsFirst(b) == Sum256(b.Transactions[1].ID)

HashTransactions(b) ==
    Sum256(Concat([i \in 1..Len(b.Transactions) |-> b.Transactions[i].ID]))

\* gob encoding of a Block and its inverse
Serialize(b) == <<"gobBlock", b.Hash, b.Transactions, b.PrevHash, b.Nonce>>
\* Deserialize losing the signatures of the inputs.
DeserializeUnsigned(data) ==
    [Hash |-> data[2],
     Transactions |->
         [k \in 1..Len(data[3]) |->
             [data[3][k] EXCEPT !.Inputs =
                 [i \in 1..Len(data[3][k].Inputs) |->
                     [data[3][k].Inputs[i] EXCEPT !.Signature = << >>]]]],
     PrevHash |-> data[4], Nonce |-> data[5]]

Deserialize(data) ==
    [Hash |-> data[2], Transactions |-> data[3], PrevHash |-> data[4],
     Nonce |-> data[5]]

\* -------------------------------------------------------- proof of work
\* NewProof: target = 1 << (256 - Difficulty)
Target == Pow2(HashBits - Difficulty)

\* The contents InitData joins between the previous hash and the nonce:
\* the digest of the ids of the block's transactions.
BlockData(b) == HashTransactions(b)

InitData(b, nonce) ==
    b.PrevHash \o BlockData(b) \o ToBytes(nonce) \o ToBytes(Difficulty)

\* The weight a transaction id contributes to the integer value of a digest.
IdWeight(id) ==
    LET tx == id[1][2][1]
    IN 7 * Len(tx[3]) + SumSeq([i \in 1..Len(tx[4]) |-> tx[4][i].Value])

\* How far the integer value of a proof-of-work digest moves from one nonce
\* to the next under the sha256 of this run: NonceSpread (odd, the search
\* meets every value below 2^HashBits) or 0 (the digest of a block stays on
\* its side of the target for every nonce of the searched range).
VARIABLE nonceStep

NonceSpread == 37

\* big.Int.SetBytes of a proof-of-work digest: the digest of the bytes
\* prevHash ++ txDigest ++ nonce ++ difficulty read as an unsigned integer
\* below 2^HashBits.  The value depends on every field; the nonce steps it
\* by nonceStep.
RECURSIVE SetBytes(_)
SetBytes(hash) ==
    LET data == hash[1][2]
        n == Len(data)
        prev == IF n = 4 THEN SetBytes(SubSeq(data, 1, 1)) ELSE 0
        ids == data[n - 2][2]
        txs == SumSeq([i \in 1..Len(ids) |-> IdWeight(<<ids[i]>>)])
    IN (5 * prev + 3 * txs + nonceStep * data[n - 1][2] + data[n][2] + 11)
           % Pow2(HashBits)

\* The zero value of the [32]byte array Run starts with.
ZeroHash == << <<"zero", 32>> >>

\* ProofOfWork.Run: the loop from the given nonce on; hash is the digest of
\* the last nonce tried.
RECURSIVE RunFrom(_, _, _)
RunFrom(b, nonce, hash) ==
    IF nonce < MaxInt64
    THEN LET h == Sum256(InitData(b, nonce))
         IN IF SetBytes(h) < Target
            THEN [nonce |-> nonce, hash |-> h]
            ELSE RunFrom(b, nonce + 1, h)
    ELSE [nonce |-> nonce, hash |-> hash]

\* Run beginning its search at nonce 1.
RunFromOne(b) == RunFrom(b, 1, ZeroHash)

\* Run without the search: the digest of nonce 0 is returned as it is.
RunNoSearch(b) == [nonce |-> 0, hash |-> Sum256(InitData(b, 0))]

\* Run counting the accepted nonce once more after the break.
RunOffByOne(b) ==
    [nonce |-> RunFrom(b, 0, ZeroHash).nonce + 1,
     hash |-> RunFrom(b, 0, ZeroHash).hash]

Run(b) == RunFrom(b, 0, ZeroHash)

Validate(b) == SetBytes(Sum256(InitData(b, b.Nonce))) < Target

CreateBlock(txs, prevHash) ==
    LET block == [Hash |-> << >>, Transactions |-> txs,
                  PrevHash |-> prevHash, Nonce |-> 0]
        r == Run(block)
    IN [block EXCEPT !.Hash = r.hash, !.Nonce = r.nonce]

\* ----------------------------------------------------------- chain store
\* A BlockChain handle is [PrevHash, DB]; DB is the store: DB.lh is << >>
\* when the key "lh" is absent and <<hash>> when it is present, DB.blocks
\* maps a block hash to the encoded block.
EmptyDB == [lh |-> << >>, blocks |-> << >>]

\* Iterator.Next until a block with an empty PrevHash was returned: the
\* blocks from hash cur back to the genesis block.
RECURSIVE IterBlocks(_, _)
IterBlocks(DB, cur) ==
    LET block == Deserialize(DB.blocks[cur])
    IN IF Len(block.PrevHash) = 0
       THEN <<block>>
       ELSE <<block>> \o IterBlocks(DB, block.PrevHash)

\* The transactions in the order the loops over the iterator visit them.
ChainTxs(bc) ==
    LET chain == IterBlocks(bc.DB, bc.PrevHash)
    IN Concat([i \in 1..Len(chain) |-> chain[i].Transactions])

\* FindTransaction looking through the block at the tip only.
FindTransactionTipOnly(bc, ID) ==
    LET txs == Deserialize(bc.DB.blocks[bc.PrevHash]).Transactions
        hits == {i \in 1..Len(txs) : txs[i].ID = ID}
    IN IF hits = {}
       THEN [found |-> FALSE, tx |-> [ID |-> << >>, Inputs |-> << >>,
                                      Outputs |-> << >>]]
       ELSE [found |-> TRUE,
             tx |-> txs[CHOOSE i \in hits : \A j \in hits : i <= j]]

FindTransaction(bc, ID) ==
    LET txs == ChainTxs(bc)
        hits == {i \in 1..Len(txs) : txs[i].ID = ID}
    IN IF hits = {}
       THEN [found |-> FALSE, tx |-> [ID |-> << >>, Inputs |-> << >>,
                                      Outputs |-> << >>]]
       ELSE [found |-> TRUE,
             tx |-> txs[CHOOSE i \in hits : \A j \in hits : i <= j]]

\* One transaction of the FindUnspentTransactions scan.  st.unspent is
\* unspentTxs, st.spent the pairs (id, index) held by spentTxOutputs.
ScanTx(st, tx, pubKeyHash) ==
    LET live == {i \in 1..Len(tx.Outputs) :
                    /\ <<tx.ID, i - 1>> \notin st.spent
                    /\ IsLockedWithKey(tx.Outputs[i], pubKeyHash)}
        marks == IF IsCoinbase(tx) THEN {}
                 ELSE {<<tx.Inputs[i].ID, tx.Inputs[i].Out>> :
                          i \in {j \in 1..Len(tx.Inputs) :
                                    UsesKey(tx.Inputs[j], pubKeyHash)}}
    IN [unspent |-> st.unspent \o [k \in 1..Cardinality(live) |-> tx],
        spent |-> st.spent \cup marks]

RECURSIVE ScanTxs(_, _, _)
ScanTxs(st, txs, pubKeyHash) ==
    IF Len(txs) = 0 THEN st
    ELSE ScanTxs(ScanTx(st, Head(txs), pubKeyHash), Tail(txs), pubKeyHash)

FindUnspentTransactions(bc, pubKeyHash) ==
    ScanTxs([unspent |-> << >>, spent |-> {}], ChainTxs(bc), pubKeyHash).unspent

\* The outputs of one transaction that are locked with the key, each with
\* the id and index it has in the chain.
LockedOutputs(tx, pubKeyHash) ==
    LET idx == {i \in 1..Len(tx.Outputs) :
                   IsLockedWithKey(tx.Outputs[i], pubKeyHash)}
    IN SelectSeq([i \in 1..Len(tx.Outputs) |->
                     [ID |-> tx.ID, Out |-> i - 1, out |-> tx.Outputs[i]]],
                 LAMBDA c : c.Out + 1 \in idx)

\* FindUnspentTxOutputs, keeping for every returned output where it is.
FindUnspentTxOutputsAt(bc, pubKeyHash) ==
    LET unspentTxs == FindUnspentTransactions(bc, pubKeyHash)
    IN Concat([k \in 1..Len(unspentTxs) |->
                  LockedOutputs(unspentTxs[k], pubKeyHash)])

FindUnspentTxOutputs(bc, pubKeyHash) ==
    LET at == FindUnspentTxOutputsAt(bc, pubKeyHash)
    IN [k \in 1..Len(at) |-> at[k].out]

\* The loops of FindSpendableOutputs over the remaining candidates.
RECURSIVE Accumulate(_, _, _, _)
Accumulate(cands, amount, accumulated, spendableOutputs) ==
    IF Len(cands) = 0
    THEN [acc |-> accumulated, outs |-> spendableOutputs]
    ELSE LET c == Head(cands)
         IN IF accumulated < amount
            THEN LET acc2 == accumulated + c.out.Value
                     outs2 == IF c.ID \in DOMAIN spendableOutputs
                              THEN [spendableOutputs EXCEPT
                                       ![c.ID] = Append(@, c.Out)]
                              ELSE spendableOutputs @@ (c.ID :> <<c.Out>>)
                 IN IF acc2 >= amount
                    THEN [acc |-> acc2, outs |-> outs2]
                    ELSE Accumulate(Tail(cands), amount, acc2, outs2)
            ELSE Accumulate(Tail(cands), amount, accumulated,
                            spendableOutputs)

FindSpendableOutputs(bc, pubKeyHash, amount) ==
    LET unspentTxs == FindUnspentTransactions(bc, pubKeyHash)
        cands == Concat([k \in 1..Len(unspentTxs) |->
                            LockedOutputs(unspentTxs[k], pubKeyHash)])
    IN Accumulate(cands, amount, 0, << >>)

\* SignTransaction signing the inputs whose transaction was found and
\* passing over the others.
SignTransactionSkipMissing(bc, tx, privKey) ==
    LET ids == {tx.Inputs[i].ID : i \in 1..Len(tx.Inputs)}
        prevTXs == [id \in ids |-> FindTransaction(bc, id).tx]
    IN [panic |-> FALSE,
        tx |-> [tx EXCEPT !.Inputs =
                  [i \in 1..Len(tx.Inputs) |->
                      IF FindTransaction(bc, tx.Inputs[i].ID).found
                      THEN [tx.Inputs[i] EXCEPT !.Signature =
                               EcdsaSign(privKey, InputDigest(tx, i, prevTXs))]
                      ELSE tx.Inputs[i]]]]

\* SignTransaction: look every input's transaction up (a miss panics),
\* then Sign.
SignTransaction(bc, tx, privKey) ==
    LET ids == {tx.Inputs[i].ID : i \in 1..Len(tx.Inputs)}
        prevTXs == [id \in ids |-> FindTransaction(bc, id).tx]
    IN IF \E id \in ids : ~FindTransaction(bc, id).found
       THEN [panic |-> TRUE, tx |-> tx]
       ELSE IF ~IsCoinbase(tx) /\ MissingPrev(tx, prevTXs)
       THEN [panic |-> TRUE, tx |-> tx]
       ELSE [panic |-> FALSE, tx |-> Sign(tx, privKey, prevTXs)]

\* VerifyTransaction: the same lookups, then Verify.
VerifyTransaction(bc, tx) ==
    LET ids == {tx.Inputs[i].ID : i \in 1..Len(tx.Inputs)}
        prevTXs == [id \in ids |-> FindTransaction(bc, id).tx]
    IN IF \E id \in ids : ~FindTransaction(bc, id).found
       THEN [panic |-> TRUE, ok |-> FALSE]
       ELSE IF ~IsCoinbase(tx) /\ MissingPrev(tx, prevTXs)
       THEN [panic |-> TRUE, ok |-> FALSE]
       ELSE [panic |-> FALSE, ok |-> Verify(tx, prevTXs)]

\* The change output of NewTransaction: NewTXOutput(acc-amount, to).
ChangeOutput(from, to, acc, amount) == NewTXOutput(acc - amount, to)

\* NewTransaction once the funds are known to suffice; order is the order
\* in which range visits the keys of the spendableOutputs map.
BuildTransaction(from, to, amount, acc, spendableOutputs, order) ==
    LET w == WalletOf(from)
        txInputs == Concat([k \in 1..Len(order) |->
                       [j \in 1..Len(spendableOutputs[order[k]]) |->
                           [ID |-> order[k],
                            Out |-> spendableOutputs[order[k]][j],
                            Signature |-> << >>,
                            PubKey |-> PublicKey(w)]]])
        txOutputs == <<NewTXOutput(amount, to)>> \o
                     (IF acc > amount
                      THEN <<ChangeOutput(from, to, acc, amount)>>
                      ELSE << >>)
        tx == [ID |-> << >>, Inputs |-> txInputs, Outputs |-> txOutputs]
    IN [tx EXCEPT !.ID = GenerateHash(tx)]

\* The balance getBalance prints for an address.
Balance(bc, address) ==
    LET pubKeyHash == Lock(address)
        outs == FindUnspentTxOutputs(bc, pubKeyHash)
    IN SumSeq([k \in 1..Len(outs) |-> outs[k].Value])

\* wallet.ValidateAddress: the trailing checksum of the decoded address is
\* the checksum of what precedes it.
ValidateAddress(address) ==
    LET pubKeyHash == Base58Decode(address)
        n == Len(pubKeyHash)
    IN /\ n > checksumLen
       /\ SubSeq(pubKeyHash, n - checksumLen + 1, n) =
              GenerateChecksum(SubSeq(pubKeyHash, 1, n - checksumLen))

\* An address of the right length whose checksum is that of another payload.
BadAddress ==
    LET vHash == << <<"version", version>> >> \o
                     GeneratePublicKeyHash(PublicKey(1))
    IN Base58Encode(vHash \o GenerateChecksum(<< <<"version", version>> >>))

\* The addresses commands are given.
Addresses == {Address(w) : w \in Wallets} \cup {BadAddress}

\* InitBlockChain creating a genesis block whether or not a tip is stored.
InitBlockChainAlwaysCreate(DB, address) ==
    LET cbTx == CoinbaseTx(address, "Genesis Block")
        genesis == CreateBlock(<<cbTx>>, << >>)
    IN [DB |-> [lh |-> <<genesis.Hash>>,
                blocks |-> (genesis.Hash :> Serialize(genesis)) @@ DB.blocks],
        PrevHash |-> genesis.Hash]

\* The body of the db.Update closure of InitBlockChain, run on store DB.
InitBlockChain(DB, address) ==
    IF DB.lh = << >>
    THEN LET cbTx == CoinbaseTx(address, "Genesis Block")
             genesis == CreateBlock(<<cbTx>>, << >>)
         IN [DB |-> [lh |-> <<genesis.Hash>>,
                     blocks |-> (genesis.Hash :> Serialize(genesis))
                                    @@ DB.blocks],
             PrevHash |-> genesis.Hash]
    ELSE [DB |-> DB, PrevHash |-> DB.lh[1]]

\* ------------------------------------------------------------------ state
VARIABLES
    db,          \* the badger store at DB_PATH
    pc,          \* where the running command is ("idle": no command runs)
    cmd,         \* the arguments of the running command
    bcPrevHash,  \* BlockChain.PrevHash of the running command's handle
    tx,          \* the transaction send built
    prevHash,    \* AddBlock's local prevHash
    newBlock,    \* AddBlock's local newBlock
    out,         \* how the last command ended
    dbStart,     \* history: the store when the last command started
    appended,    \* history: one record per block committed to the store
    iterCurrentHash,  \* Iterator.CurrentHash of the iterator of printBlocks
    yielded,     \* the hashes of the blocks Next returned to printBlocks
    rpc,         \* where a goroutine reading through the handle is
    rCurrentHash,     \* Iterator.CurrentHash of that goroutine's iterator
    call,        \* the last call of SignTransaction / VerifyTransaction
    pc2,         \* where a second AddBlock call on the handle is
    transactions2,    \* the argument of that call
    prevHash2,   \* its local prevHash
    newBlock2    \* its local newBlock

vars == <<db, pc, cmd, bcPrevHash, tx, prevHash, newBlock, out, dbStart,
          appended, nonceStep, iterCurrentHash, yielded, rpc, rCurrentHash,
          call, pc2, transactions2, prevHash2, newBlock2>>

NoTx == [ID |-> << >>, Inputs |-> << >>, Outputs |-> << >>]
NoBlock == [Hash |-> << >>, Transactions |-> << >>, PrevHash |-> << >>,
            Nonce |-> 0]
NoCmd == [name |-> "none", from |-> BadAddress, to |-> BadAddress,
          amount |-> 0]

\* No call of SignTransaction / VerifyTransaction was made on the handle.
\* A call is kept as [fn, arg, panic, tx, ok, db]: the function and its
\* argument, whether it panicked, the transaction as the call left it, the
\* value VerifyTransaction returned, the store when the call began.
NoCall == [fn |-> "none", arg |-> NoTx, panic |-> FALSE, tx |-> NoTx,
           ok |-> FALSE, db |-> EmptyDB]

Ok(msg, value) == [status |-> "ok", msg |-> msg, value |-> value]
Panic(msg) == [status |-> "panic", msg |-> msg, value |-> 0]

\* The handle of the running command.
BC == [PrevHash |-> bcPrevHash, DB |-> db]

\* The record kept for a block committed while the store's tip was lh: by
\* is the function that committed it, from/to/amount the transfer it holds
\* (for a genesis block: the address rewarded and the reward).
Appended(block, lh, by, from, to, amount) ==
    [Hash |-> block.Hash, tip |-> lh, by |-> by, from |-> from, to |-> to,
     amount |-> amount]

\* The records InitBlockChain adds when it runs on store DB.
GenesisAppended(DB, address) ==
    IF DB.lh = << >>
    THEN LET r == InitBlockChain(DB, address)
         IN <<Appended(Deserialize(r.DB.blocks[r.PrevHash]), DB.lh,
                       "InitBlockChain", address, address, Reward)>>
    ELSE << >>

\* The state of the command line before the first command.
InitProgram ==
    /\ db = EmptyDB
    /\ pc = "idle"
    /\ cmd = NoCmd
    /\ bcPrevHash = << >>
    /\ tx = NoTx
    /\ prevHash = << >>
    /\ newBlock = NoBlock
    /\ out = Ok("start", 0)
    /\ dbStart = EmptyDB
    /\ appended = << >>
    /\ iterCurrentHash = << >>
    /\ yielded = << >>
    /\ rpc = "idle"
    /\ rCurrentHash = << >>
    /\ call = NoCall
    /\ pc2 = "idle"
    /\ transactions2 = << >>
    /\ prevHash2 = << >>
    /\ newBlock2 = NoBlock

Init ==
    /\ InitProgram
    /\ nonceStep = NonceSpread

Locals == <<bcPrevHash, tx, prevHash, newBlock>>

\* The iterator of printBlocks and the reading goroutine's.
IterVars == <<iterCurrentHash, yielded>>
ReaderVars == <<rpc, rCurrentHash>>

\* The locals of a second AddBlock call on the handle.
SecondVars == <<pc2, transactions2, prevHash2, newBlock2>>

\* What create, getbal and send leave alone.
Others == <<nonceStep, IterVars, ReaderVars, SecondVars>>

\* ---------------------------------------------------------------- actions
\* A new process of the command line starts (main, up to the dispatch of
\* CLI.Run); no goroutine of the last one is left.
main ==
    /\ pc = "idle"
    /\ rpc = "idle"
    /\ pc2 = "idle"
    /\ pc' = "Run"
    /\ out' = Ok("start", 0)
    /\ dbStart' = db
    /\ UNCHANGED <<db, appended, cmd, Locals, Others, call>>

\* createBlockChain opening the store before it looks at the address.
createBlockChainOpenFirst(address) ==
    /\ pc = "Run"
    /\ pc' = "idle"
    /\ UNCHANGED <<dbStart, cmd, Locals, Others, call>>
    /\ \E commit \in BOOLEAN :
          IF commit
          THEN /\ db' = InitBlockChain(db, address).DB
               /\ appended' = appended \o GenesisAppended(db, address)
               /\ out' = IF ~ValidateAddress(address)
                         THEN Panic("address not valid")
                         ELSE Ok("Finished!", 0)
          ELSE /\ out' = Panic("Unable to update database")
               /\ UNCHANGED <<db, appended>>

\* CLI.createBlockChain
createBlockChain(address) ==
    /\ pc = "Run"
    /\ pc' = "idle"
    /\ UNCHANGED <<dbStart, cmd, Locals, Others, call>>
    /\ IF ~ValidateAddress(address)
       THEN /\ out' = Panic("address not valid")
            /\ UNCHANGED <<db, appended>>
       ELSE \E commit \in BOOLEAN :
              IF commit
              THEN /\ db' = InitBlockChain(db, address).DB
                   /\ appended' = appended \o GenesisAppended(db, address)
                   /\ out' = Ok("Finished!", 0)
              ELSE /\ out' = Panic("Unable to update database")
                   /\ UNCHANGED <<db, appended>>

\* CLI.getBalance
getBalance(address) ==
    /\ pc = "Run"
    /\ pc' = "idle"
    /\ UNCHANGED <<dbStart, cmd, Locals, Others, call>>
    /\ IF ~ValidateAddress(address)
       THEN /\ out' = Panic("address not valid")
            /\ UNCHANGED <<db, appended>>
       ELSE \E commit \in BOOLEAN :
              IF commit
              THEN LET r == InitBlockChain(db, address)
                   IN /\ db' = r.DB
                      /\ appended' = appended \o GenesisAppended(db, address)
                      /\ out' = Ok("Balance", Balance(r, address))
              ELSE /\ out' = Panic("Unable to update database")
                   /\ UNCHANGED <<db, appended>>

\* CLI.send up to the return of InitBlockChain
send(from, to, amount) ==
    LET c == [name |-> "send", from |-> from, to |-> to, amount |-> amount]
    IN
    /\ pc = "Run"
    /\ Cardinality(DOMAIN db.blocks) < MaxBlocks
    /\ UNCHANGED <<dbStart, tx, prevHash, newBlock, Others, call>>
    /\ IF ~ValidateAddress(to) \/ ~ValidateAddress(from)
       THEN /\ out' = Panic("address not valid")
            /\ pc' = "idle"
            /\ UNCHANGED <<db, appended, cmd, bcPrevHash>>
       ELSE \E commit \in BOOLEAN :
              IF commit
              THEN LET r == InitBlockChain(db, from)
                   IN /\ db' = r.DB
                      /\ appended' = appended \o GenesisAppended(db, from)
                      /\ bcPrevHash' = r.PrevHash
                      /\ pc' = "NewTransaction"
                      /\ cmd' = c
                      /\ out' = Ok("running", 0)
              ELSE /\ out' = Panic("Unable to update database")
                   /\ pc' = "idle"
                   /\ UNCHANGED <<db, appended, cmd, bcPrevHash>>

\* BlockChain.NewTransaction, called by send
NewTransaction ==
    /\ pc = "NewTransaction"
    /\ UNCHANGED <<db, dbStart, appended, prevHash, newBlock, Others, call>>
    /\ LET w == WalletOf(cmd.from)
           pubKeyHash == GeneratePublicKeyHash(PublicKey(w))
           r == FindSpendableOutputs(BC, pubKeyHash, cmd.amount)
       IN IF r.acc < cmd.amount
          THEN /\ out' = Panic("not enough funds")
               /\ pc' = "idle"
               /\ cmd' = NoCmd
               /\ bcPrevHash' = << >>
               /\ UNCHANGED tx
          ELSE \E order \in Perms(DOMAIN r.outs) :
                 LET built == BuildTransaction(cmd.from, cmd.to, cmd.amount,
                                               r.acc, r.outs, order)
                     signed == SignTransaction(BC, built, PrivateKey(w))
                 IN IF signed.panic
                    THEN /\ out' = Panic("Unable to sign")
                         /\ pc' = "idle"
                         /\ cmd' = NoCmd
                         /\ bcPrevHash' = << >>
                         /\ UNCHANGED tx
                    ELSE /\ tx' = signed.tx
                         /\ pc' = "AddBlock"
                         /\ UNCHANGED <<out, cmd, bcPrevHash>>

\* BlockChain.AddBlock: the read-only transaction that reads the tip
AddBlock_View ==
    /\ pc = "AddBlock"
    /\ call' = NoCall
    /\ UNCHANGED <<db, dbStart, appended, newBlock, Others>>
    /\ IF db.lh = << >>
       THEN /\ out' = Panic("Unable to read previous hash")
            /\ pc' = "idle"
            /\ cmd' = NoCmd
            /\ tx' = NoTx
            /\ bcPrevHash' = << >>
            /\ UNCHANGED prevHash
       ELSE /\ prevHash' = db.lh[1]
            /\ pc' = "CreateBlock"
            /\ UNCHANGED <<out, cmd, tx, bcPrevHash>>

\* BlockChain.AddBlock: mining the new block
AddBlock_CreateBlock ==
    /\ pc = "CreateBlock"
    /\ newBlock' = CreateBlock(<<tx>>, prevHash)
    /\ pc' = "Update"
    /\ UNCHANGED <<db, cmd, dbStart, appended, out, tx, prevHash, bcPrevHash,
                   Others, call>>
\* AddBlock leaving bc.PrevHash as it was.
AddBlockPrevHashStale(PrevHash, block) == PrevHash

\* bc.PrevHash = newBlock.Hash, inside the closure of AddBlock's db.Update
AddBlockPrevHash(PrevHash, block) == block.Hash

\* BlockChain.AddBlock: the closure of the write transaction; it stages the
\* two writes and assigns bc.PrevHash, or a Set fails and the command panics.
AddBlock_Update ==
    /\ pc = "Update"
    /\ UNCHANGED <<db, dbStart, appended, Others, call>>
    /\ \E ok \in BOOLEAN :
          IF ok
          THEN /\ bcPrevHash' = AddBlockPrevHash(bcPrevHash, newBlock)
               /\ pc' = "Commit"
               /\ UNCHANGED <<out, cmd, tx, prevHash, newBlock>>
          ELSE /\ out' = Panic("Unable to update database with new block")
               /\ pc' = "idle"
               /\ cmd' = NoCmd
               /\ tx' = NoTx
               /\ prevHash' = << >>
               /\ newBlock' = NoBlock
               /\ bcPrevHash' = << >>

\* A commit that keeps the new block alone.
AddBlockCommitNewestOnly(DB, block) ==
    [lh |-> <<block.Hash>>, blocks |-> (block.Hash :> Serialize(block))]

\* A commit that makes the tip visible without the block.
AddBlockCommitTipOnly(DB, block) ==
    [lh |-> <<block.Hash>>, blocks |-> DB.blocks]

\* What the committed write transaction of AddBlock makes of store DB.
AddBlockCommit(DB, block) ==
    [lh |-> <<block.Hash>>,
     blocks |-> (block.Hash :> Serialize(block)) @@ DB.blocks]

\* BlockChain.AddBlock: the commit of the write transaction; it commits
\* both writes or none, and then the command panics.
AddBlock_Commit ==
    /\ pc = "Commit"
    /\ cmd' = NoCmd
    /\ tx' = NoTx
    /\ prevHash' = << >>
    /\ newBlock' = NoBlock
    /\ UNCHANGED <<dbStart, Others, call>>
    /\ \E commit \in BOOLEAN :
          IF commit
          THEN /\ db' = AddBlockCommit(db, newBlock)
               /\ appended' = Append(appended,
                                     Appended(newBlock, db.lh, "AddBlock",
                                              cmd.from, cmd.to, cmd.amount))
               /\ pc' = "Success"
               /\ UNCHANGED <<out, bcPrevHash>>
          ELSE /\ out' = Panic("Unable to update database with new block")
               /\ pc' = "idle"
               /\ bcPrevHash' = << >>
               /\ UNCHANGED <<db, appended>>

\* CLI.send after AddBlock returned: prints Success!, closes the store.
send_Return ==
    /\ pc = "Success"
    /\ pc' = "idle"
    /\ out' = Ok("Success!", 0)
    /\ bcPrevHash' = << >>
    /\ UNCHANGED <<db, cmd, tx, prevHash, newBlock, dbStart, appended, Others,
                   call>>

\* BlockChain.NewIterator
NewIterator(bc) == [CurrentHash |-> bc.PrevHash, DB |-> bc.DB]

\* CLI.printBlocks up to NewIterator.  InitBlockChain("") on a store
\* without a chain builds CoinbaseTx("", ...), whose Lock slices the empty
\* decoded address out of range: the closure panics, nothing is committed.
printBlocks ==
    /\ pc = "Run"
    /\ UNCHANGED <<db, dbStart, appended, cmd, tx, prevHash, newBlock,
                   nonceStep, ReaderVars, SecondVars, call, yielded>>
    /\ IF db.lh = << >>
       THEN /\ out' = Panic("slice bounds out of range")
            /\ pc' = "idle"
            /\ UNCHANGED <<bcPrevHash, iterCurrentHash>>
       ELSE \E commit \in BOOLEAN :
              IF commit
              THEN /\ bcPrevHash' = InitBlockChain(db, "").PrevHash
                   /\ iterCurrentHash' =
                         NewIterator([PrevHash |-> InitBlockChain(db, "").PrevHash,
                                      DB |-> db]).CurrentHash
                   /\ pc' = "iter.Next"
                   /\ out' = Ok("running", 0)
              ELSE /\ out' = Panic("Unable to update database")
                   /\ pc' = "idle"
                   /\ UNCHANGED <<bcPrevHash, iterCurrentHash>>

\* Next returning the block without moving the iterator on.
IteratorNextStuck(DB, CurrentHash) ==
    [block |-> Deserialize(DB.blocks[CurrentHash]),
     CurrentHash |-> CurrentHash]

\* Iterator.Next when the block is found: the block returned and the
\* iterator's new CurrentHash.
IteratorNext(DB, CurrentHash) ==
    [block |-> Deserialize(DB.blocks[CurrentHash]),
     CurrentHash |-> Deserialize(DB.blocks[CurrentHash]).PrevHash]

\* One pass of the loop of printBlocks: Iterator.Next, the prints, the break
\* once the block returned has an empty PrevHash.
printBlocks_Next ==
    /\ pc = "iter.Next"
    /\ UNCHANGED <<db, dbStart, appended, cmd, tx, prevHash, newBlock,
                   nonceStep, ReaderVars, SecondVars, call>>
    /\ IF iterCurrentHash \notin DOMAIN db.blocks
       THEN /\ out' = Panic("Unable to get next block from database")
            /\ pc' = "idle"
            /\ bcPrevHash' = << >>
            /\ iterCurrentHash' = << >>
            /\ yielded' = << >>
       ELSE LET r == IteratorNext(db, iterCurrentHash)
            IN /\ iterCurrentHash' = r.CurrentHash
               /\ yielded' = Append(yielded, r.block.Hash)
               /\ pc' = IF Len(r.block.PrevHash) = 0 THEN "printed"
                        ELSE "iter.Next"
               /\ UNCHANGED <<out, bcPrevHash>>

\* CLI.printBlocks after the loop: the deferred close of the store.
printBlocks_Return ==
    /\ pc = "printed"
    /\ pc' = "idle"
    /\ out' = Ok("printed", Len(yielded))
    /\ bcPrevHash' = << >>
    /\ iterCurrentHash' = << >>
    /\ yielded' = << >>
    /\ UNCHANGED <<db, dbStart, appended, cmd, tx, prevHash, newBlock,
                   nonceStep, ReaderVars, SecondVars, call>>

\* The process of the running command stops.
Stop ==
    /\ pc \notin {"idle", "Run", "appended"}
    /\ pc' = "idle"
    /\ out' = Panic("stopped")
    /\ tx' = NoTx
    /\ prevHash' = << >>
    /\ newBlock' = NoBlock
    /\ bcPrevHash' = << >>
    /\ cmd' = NoCmd
    /\ iterCurrentHash' = << >>
    /\ yielded' = << >>
    /\ call' = NoCall
    /\ UNCHANGED <<db, dbStart, appended, nonceStep, ReaderVars, SecondVars>>

Next ==
    \/ main
    \/ \E address \in Addresses : createBlockChain(address)
    \/ \E address \in Addresses : getBalance(address)
    \/ \E from \in Addresses, to \in Addresses, amount \in Amounts :
          send(from, to, amount)
    \/ NewTransaction
    \/ AddBlock_View
    \/ AddBlock_CreateBlock
    \/ AddBlock_Update
    \/ AddBlock_Commit
    \/ send_Return
    \/ printBlocks
    \/ printBlocks_Next
    \/ printBlocks_Return
    \/ Stop

Spec == Init /\ [][Next]_vars
\* ------------------------------------------- the exhausted nonce search
\* The command line under a sha256 that may leave the digests of a block on
\* one side of the target through the whole searched range.
InitExhaust ==
    /\ InitProgram
    /\ nonceStep \in {0, NonceSpread}

SpecExhaust == InitExhaust /\ [][Next]_vars

\* ------------------------- SignTransaction / VerifyTransaction on a handle
\* An id no transaction has.
UnknownID == Sum256(<< <<"string", "unknown">> >>)

\* t with the value of one output changed after signing.
OutputVariants(t) ==
    {[t EXCEPT !.Outputs[k].Value = @ + 1] : k \in 1..Len(t.Outputs)}

\* t before it was signed.
Unsigned(t) ==
    [t EXCEPT !.Inputs = [i \in 1..Len(t.Inputs) |->
                             [t.Inputs[i] EXCEPT !.Signature = << >>]]]

\* t, unsigned, with one input referring to a transaction that is not in
\* the chain.
DanglingVariants(t) ==
    {[Unsigned(t) EXCEPT !.Inputs[i].ID = UnknownID] : i \in 1..Len(t.Inputs)}

\* The coinbase transactions of the chain and a fresh one.
Coinbases ==
    LET txs == ChainTxs(BC)
    IN {txs[k] : k \in {j \in 1..Len(txs) : IsCoinbase(txs[j])}}
           \cup {CoinbaseTx(cmd.to, "reward")}

\* The transactions the two functions are called with, while send holds
\* the handle and the transfer NewTransaction returned.
Candidates ==
    IF pc = "AddBlock"
    THEN {tx} \cup OutputVariants(tx) \cup DanglingVariants(tx)
             \cup Coinbases
    ELSE {}

\* A call of bc.SignTransaction(&t, privKey) with the sender's key
signTransaction(t) ==
    /\ pc = "AddBlock"
    /\ LET r == SignTransaction(BC, t, PrivateKey(WalletOf(cmd.from)))
       IN call' = [fn |-> "SignTransaction", arg |-> t, panic |-> r.panic,
                   tx |-> r.tx, ok |-> FALSE, db |-> db]
    /\ UNCHANGED <<db, pc, cmd, Locals, out, dbStart, appended, Others>>

\* A call of bc.VerifyTransaction(&t)
verifyTransaction(t) ==
    /\ pc = "AddBlock"
    /\ LET r == VerifyTransaction(BC, t)
       IN call' = [fn |-> "VerifyTransaction", arg |-> t, panic |-> r.panic,
                   tx |-> t, ok |-> r.ok, db |-> db]
    /\ UNCHANGED <<db, pc, cmd, Locals, out, dbStart, appended, Others>>

NextLib ==
    \/ Next
    \/ \E t \in Candidates : signTransaction(t)
    \/ \E t \in Candidates : verifyTransaction(t)

SpecLib == Init /\ [][NextLib]_vars

\* -------------------------------- a goroutine reading through the handle
\* The steps of AddBlock.
InFlight == {"AddBlock", "CreateBlock", "Update", "Commit"}

\* bc.NewIterator() in a goroutine that shares the handle with the running
\* AddBlock; bc.PrevHash is read without synchronisation.
Reader_NewIterator ==
    /\ rpc = "idle"
    /\ pc \in InFlight
    /\ rCurrentHash' = NewIterator(BC).CurrentHash
    /\ rpc' = "iter.Next"
    /\ UNCHANGED <<db, pc, cmd, Locals, out, dbStart, appended, nonceStep,
                   IterVars, SecondVars, call>>

\* Iterator.Next in that goroutine: a miss of the block is log.Panicf.
Reader_Next ==
    /\ rpc = "iter.Next"
    /\ pc \in InFlight \cup {"Success"}
    /\ IF rCurrentHash \notin DOMAIN db.blocks
       THEN /\ rpc' = "panic"
            /\ UNCHANGED rCurrentHash
       ELSE LET r == IteratorNext(db, rCurrentHash)
            IN /\ rCurrentHash' = r.CurrentHash
               /\ rpc' = IF Len(r.block.PrevHash) = 0 THEN "idle"
                         ELSE "iter.Next"
    /\ UNCHANGED <<db, pc, cmd, Locals, out, dbStart, appended, nonceStep,
                   IterVars, SecondVars, call>>

\* The goroutine ends with the process of the command.
Reader_Exit ==
    /\ rpc # "idle"
    /\ pc = "idle"
    /\ rpc' = "idle"
    /\ rCurrentHash' = << >>
    /\ UNCHANGED <<db, pc, cmd, Locals, out, dbStart, appended, nonceStep,
                   IterVars, SecondVars, call>>

NextConc ==
    \/ Next
    \/ Reader_NewIterator
    \/ Reader_Next
    \/ Reader_Exit

SpecConc == Init /\ [][NextConc]_vars
\* ------------------------------------- AddBlock called with a list of transactions
\* A completed call of AddBlock(transactions) on store DB (the tip is
\* read, the block mined on it, block and tip committed together).
AddBlock(DB, transactions) ==
    LET block == CreateBlock(transactions, DB.lh[1])
    IN AddBlockCommit(DB, block)

\* The transfer with which the receiver of tx pays the amount back out of
\* the first output of tx.
PayBack ==
    BuildTransaction(cmd.to, cmd.from, tx.Outputs[1].Value,
                     tx.Outputs[1].Value, (tx.ID :> <<0>>), <<tx.ID>>)

\* The lists AddBlock is called with, while send holds the handle and the
\* transfer NewTransaction returned.
Batches ==
    IF pc = "AddBlock"
    THEN {<<tx, PayBack>>, <<PayBack, tx>>}
    ELSE {}

\* A call of bc.AddBlock(transactions) on the handle.  The caller is
\* followed to the end of its calls ("appended") and no further.
appendBlock(transactions) ==
    /\ pc = "AddBlock"
    /\ UNCHANGED <<cmd, tx, prevHash, newBlock, dbStart, Others>>
    /\ \E commit \in BOOLEAN :
          IF commit
          THEN LET block == CreateBlock(transactions, db.lh[1])
               IN /\ db' = AddBlock(db, transactions)
                  /\ bcPrevHash' = AddBlockPrevHash(bcPrevHash, block)
                  /\ appended' = Append(appended,
                                        Appended(block, db.lh, "AddBlock",
                                                 cmd.from, cmd.to, cmd.amount))
                  /\ call' = [fn |-> "AddBlock", arg |-> transactions,
                              panic |-> FALSE, tx |-> NoTx, ok |-> TRUE,
                              db |-> db]
                  /\ pc' = "appended"
                  /\ UNCHANGED out
          ELSE /\ out' = Panic("Unable to update database with new block")
               /\ pc' = "appended"
               /\ call' = [fn |-> "AddBlock", arg |-> transactions,
                           panic |-> TRUE, tx |-> NoTx, ok |-> FALSE,
                           db |-> db]
               /\ UNCHANGED <<db, appended, bcPrevHash>>

\* The caller invokes bc.AddBlock again with the list of the call that just
\* completed; call.db keeps the store the first call left.
appendBlock_Again ==
    /\ pc = "appended"
    /\ call.fn = "AddBlock"
    /\ ~call.panic
    /\ LET block == CreateBlock(call.arg, db.lh[1])
       IN /\ db' = AddBlock(db, call.arg)
          /\ bcPrevHash' = AddBlockPrevHash(bcPrevHash, block)
          /\ appended' = Append(appended,
                                Appended(block, db.lh, "AddBlock",
                                         cmd.from, cmd.to, cmd.amount))
    /\ call' = [call EXCEPT !.fn = "AddBlock again", !.db = db]
    /\ UNCHANGED <<pc, cmd, tx, prevHash, newBlock, out, dbStart, Others>>

NextLedger ==
    \/ Next
    \/ \E transactions \in Batches : appendBlock(transactions)
    \/ appendBlock_Again

SpecLedger == Init /\ [][NextLedger]_vars
\* ------------------------------------------- FindTransaction on a handle
\* The ids FindTransaction is called with: those of the transactions of the
\* chain, that of the transfer not yet stored, one no transaction has.
LookupIDs ==
    IF pc = "AddBlock"
    THEN {ChainTxs(BC)[k].ID : k \in 1..Len(ChainTxs(BC))}
             \cup {tx.ID, UnknownID}
    ELSE {}

\* A call of bc.FindTransaction(ID); call.ok is true when the error
\* returned is nil.
findTransaction(ID) ==
    /\ pc = "AddBlock"
    /\ LET r == FindTransaction(BC, ID)
       IN call' = [fn |-> "FindTransaction", arg |-> ID, panic |-> FALSE,
                   tx |-> r.tx, ok |-> r.found, db |-> db]
    /\ UNCHANGED <<db, pc, cmd, Locals, out, dbStart, appended, Others>>

NextFind ==
    \/ Next
    \/ \E ID \in LookupIDs : findTransaction(ID)

SpecFind == Init /\ [][NextFind]_vars
\* -------------------------------- VerifyTransaction on forged transactions
\* t with the signature of one input removed.
UnsignedAt(t) ==
    {[t EXCEPT !.Inputs[i].Signature = << >>] : i \in 1..Len(t.Inputs)}

\* The receiver of the transfer spends the output the first input of tx
\* refers to, with the receiver's own public key on the input and signed
\* with the receiver's own private key.
Stolen ==
    LET in == tx.Inputs[1]
        value == FindTransaction(BC, in.ID).tx.Outputs[in.Out + 1].Value
        built == BuildTransaction(cmd.to, cmd.to, value, value,
                                  (in.ID :> <<in.Out>>), <<in.ID>>)
    IN SignTransaction(BC, built, PrivateKey(WalletOf(cmd.to))).tx

\* The transactions VerifyTransaction is called with, while send holds the
\* handle and the transfer NewTransaction returned.
Forged ==
    IF pc = "AddBlock"
    THEN {tx, Stolen} \cup UnsignedAt(tx)
    ELSE {}

NextVerify ==
    \/ Next
    \/ \E t \in Forged : verifyTransaction(t)

SpecVerify == Init /\ [][NextVerify]_vars

\* ------------------------------------------- two AddBlock calls, one store
\* The argument of a second AddBlock call made while send is about to call
\* AddBlock: the same transfer, or another transaction.
SecondBatches == IF pc = "AddBlock" THEN {<<tx>>, <<PayBack>>} ELSE {}

\* A goroutine that shares the handle is about to call AddBlock(transactions).
Second_Start(transactions) ==
    /\ pc = "AddBlock"
    /\ pc2 = "idle"
    /\ pc2' = "AddBlock"
    /\ transactions2' = transactions
    /\ UNCHANGED <<db, pc, cmd, Locals, out, dbStart, appended, nonceStep,
                   IterVars, ReaderVars, call, prevHash2, newBlock2>>

\* BlockChain.AddBlock of that goroutine: the read-only transaction.
Second_View ==
    /\ pc2 = "AddBlock"
    /\ pc \in InFlight \cup {"Success"}
    /\ prevHash2' = db.lh[1]
    /\ pc2' = "CreateBlock"
    /\ UNCHANGED <<db, pc, cmd, Locals, out, dbStart, appended, nonceStep,
                   IterVars, ReaderVars, call, transactions2, newBlock2>>

\* BlockChain.AddBlock of that goroutine: mining the new block.
Second_CreateBlock ==
    /\ pc2 = "CreateBlock"
    /\ pc \in InFlight \cup {"Success"}
    /\ newBlock2' = CreateBlock(transactions2, prevHash2)
    /\ pc2' = "Update"
    /\ UNCHANGED <<db, pc, cmd, Locals, out, dbStart, appended, nonceStep,
                   IterVars, ReaderVars, call, transactions2, prevHash2>>

\* BlockChain.AddBlock of that goroutine: the closure of its write
\* transaction, which stages the two writes and assigns bc.PrevHash.
Second_Update ==
    /\ pc2 = "Update"
    /\ pc \in InFlight \cup {"Success"}
    /\ bcPrevHash' = AddBlockPrevHash(bcPrevHash, newBlock2)
    /\ pc2' = "Commit"
    /\ UNCHANGED <<db, pc, cmd, tx, prevHash, newBlock, out, dbStart,
                   appended, nonceStep, IterVars, ReaderVars, call,
                   transactions2, prevHash2, newBlock2>>

\* BlockChain.AddBlock of that goroutine: the commit of its write
\* transaction. The transaction read no key, so the store finds no conflict
\* with a commit made since the tip was read; a failed commit is log.Panicf.
Second_Commit ==
    /\ pc2 = "Commit"
    /\ pc \in InFlight \cup {"Success"}
    /\ \E commit \in BOOLEAN :
          IF commit
          THEN /\ db' = AddBlockCommit(db, newBlock2)
               /\ pc2' = "returned"
          ELSE /\ pc2' = "panic"
               /\ UNCHANGED db
    /\ UNCHANGED <<pc, cmd, Locals, out, dbStart, appended, nonceStep,
                   IterVars, ReaderVars, call, transactions2, prevHash2,
                   newBlock2>>

\* A process that ran the two calls is followed no further.
NextTwo ==
    \/ Next
    \/ \E transactions \in SecondBatches : Second_Start(transactions)
    \/ Second_View
    \/ Second_CreateBlock
    \/ Second_Update
    \/ Second_Commit

SpecTwo == Init /\ [][NextTwo]_vars
\* ============================================================ properties
\* The handle a command gets when it opens the store as it is.
Opened == [PrevHash |-> db.lh[1], DB |-> db]

\* The stored block with hash h.
Stored(h) == Deserialize(db.blocks[h])

\* C1 -- Hash chain integrity: every block committed by AddBlock is stored,
\* its PrevHash is the hash of the block that was the tip when it was
\* appended, and the hash of every committed block, read as an unsigned
\* integer, is below the target 1 << (256 - Difficulty).
C1_HashChainIntegrity ==
    \A i \in 1..Len(appended) :
        LET e == appended[i]
        IN /\ e.Hash \in DOMAIN db.blocks
           /\ Stored(e.Hash).Hash = e.Hash
           /\ SetBytes(Stored(e.Hash).Hash) < Target
           /\ e.by = "AddBlock" =>
                 /\ e.tip # << >>
                 /\ e.tip[1] \in DOMAIN db.blocks
                 /\ Stored(e.Hash).PrevHash = e.tip[1]

\* Two blocks were appended by AddBlock after the genesis block.
C1_Witness ==
    /\ Len(appended) = 3
    /\ appended[2].by = "AddBlock"
    /\ appended[3].by = "AddBlock"
    /\ Stored(appended[3].Hash).PrevHash = appended[2].Hash

\* C2 -- Atomic append: in every state of the store, also after a failed
\* write transaction or a stopped AddBlock, a present tip key names a stored
\* block, and that block is the one with this hash.
C2_AtomicAppend ==
    db.lh # << >> =>
        /\ db.lh[1] \in DOMAIN db.blocks
        /\ Stored(db.lh[1]).Hash = db.lh[1]

\* The write transaction of an AddBlock failed on a store that has a chain.
C2_Witness ==
    /\ out = Panic("Unable to update database with new block")
    /\ db.lh # << >>
    /\ db = dbStart
\* The key hash the transfer and balance paths derive for an address.
KeyHash(address) == GeneratePublicKeyHash(PublicKey(WalletOf(address)))

\* The (transaction id, output index) pairs referenced by the inputs of the
\* transfers of the chain, one entry per input.
InputRefs ==
    LET txs == ChainTxs(Opened)
    IN Concat([k \in 1..Len(txs) |->
          IF IsCoinbase(txs[k]) THEN << >>
          ELSE [i \in 1..Len(txs[k].Inputs) |->
                   <<txs[k].Inputs[i].ID, txs[k].Inputs[i].Out>>]])

SpentRefs == {InputRefs[i] : i \in 1..Len(InputRefs)}

\* The outputs of the chain locked to pubKeyHash that no input references.
ReferenceUTXO(pubKeyHash) ==
    LET txs == ChainTxs(Opened)
    IN UNION {{[ID |-> txs[k].ID, Out |-> i - 1, out |-> txs[k].Outputs[i]] :
                 i \in {j \in 1..Len(txs[k].Outputs) :
                          /\ IsLockedWithKey(txs[k].Outputs[j], pubKeyHash)
                          /\ <<txs[k].ID, j - 1>> \notin SpentRefs}} :
              k \in 1..Len(txs)}

RECURSIVE SumValues(_)
SumValues(S) ==
    IF S = {} THEN 0
    ELSE LET c == CHOOSE x \in S : TRUE
         IN c.out.Value + SumValues(S \ {c})

\* C3 -- No double spend in chain history: no (transaction id, output
\* index) pair is referenced by more than one input of the transactions of
\* the chain, two inputs of one transaction included.
C3_NoDoubleSpend ==
    db.lh # << >> =>
        \A i, j \in 1..Len(InputRefs) : i # j => InputRefs[i] # InputRefs[j]

\* C4 -- Double-spend guard of the query: no output FindUnspentTxOutputs
\* returns for a key hash, and no output FindSpendableOutputs selects, is
\* referenced by an input of a transaction of the chain.
C4_QueryGuard ==
    db.lh # << >> =>
        \A w \in Wallets :
            LET h == GeneratePublicKeyHash(PublicKey(w))
                at == FindUnspentTxOutputsAt(Opened, h)
            IN /\ \A k \in 1..Len(at) : <<at[k].ID, at[k].Out>> \notin SpentRefs
               /\ \A amount \in Amounts :
                     LET sel == FindSpendableOutputs(Opened, h, amount).outs
                     IN \A id \in DOMAIN sel : \A j \in 1..Len(sel[id]) :
                           <<id, sel[id][j]>> \notin SpentRefs

\* C5 -- Balance equals the reference UTXO set: FindUnspentTxOutputs(h)
\* holds every output locked to h that no input references exactly once and
\* nothing else, so the balance is the sum of the values of those outputs.
C5_BalanceIsUTXO ==
    db.lh # << >> =>
        \A w \in Wallets :
            LET h == GeneratePublicKeyHash(PublicKey(w))
                at == FindUnspentTxOutputsAt(Opened, h)
            IN /\ \A k \in 1..Len(at) : at[k] \in ReferenceUTXO(h)
               /\ \A u \in ReferenceUTXO(h) :
                     Cardinality({k \in 1..Len(at) : at[k] = u}) = 1
               /\ Balance(Opened, Address(w)) = SumValues(ReferenceUTXO(h))

\* C6 -- UTXO conservation: on a chain of one genesis coinbase of value V
\* to S and one transfer of A (0 < A < V) from S to another address R,
\* balance(S) = V - A, balance(R) = A and the two add up to V.
C6_Conservation ==
    ( /\ Len(appended) = 2
      /\ appended[1].by = "InitBlockChain"
      /\ appended[2].by = "AddBlock"
      /\ appended[2].from = appended[1].from
      /\ appended[2].to # appended[2].from
      /\ appended[2].amount > 0
      /\ appended[2].amount < Reward )
    => /\ Balance(Opened, appended[2].from) = Reward - appended[2].amount
       /\ Balance(Opened, appended[2].to) = appended[2].amount
       /\ Balance(Opened, appended[2].from) + Balance(Opened, appended[2].to)
              = Reward

\* C7 -- Transfer outputs: the transaction NewTransaction(from, to, amount)
\* built has one output of amount locked to the key hash of to and, if and
\* only if the accumulated input value exceeds amount, exactly one more
\* output, of accumulated - amount, locked to the key hash of from.
C7_TransferOutputs ==
    pc = "AddBlock" =>
        LET acc == FindSpendableOutputs(BC, KeyHash(cmd.from), cmd.amount).acc
        IN /\ Len(tx.Outputs) = (IF acc > cmd.amount THEN 2 ELSE 1)
           /\ tx.Outputs[1] =
                 [Value |-> cmd.amount, PubKeyHash |-> KeyHash(cmd.to)]
           /\ acc > cmd.amount =>
                 tx.Outputs[2] = [Value |-> acc - cmd.amount,
                                  PubKeyHash |-> KeyHash(cmd.from)]

\* C8 -- Insufficient funds: a transfer that fails because the accumulated
\* value is below the amount appends no block and leaves the store (blocks
\* and tip) as it was before the transfer was attempted.
C8_InsufficientFunds ==
    out = Panic("not enough funds") =>
        /\ db = dbStart
        /\ pc = "idle"

\* C9 -- Genesis reward: after InitBlockChain(A) on an empty store the chain
\* has exactly one block with one coinbase transaction (one input, empty
\* reference, index -1; one output of 100 locked to A's key hash), so
\* balance(A) = 100 and every other address has balance 0.
C9_GenesisReward ==
    Len(appended) = 1 =>
        LET A == appended[1].from
            chain == IterBlocks(db, db.lh[1])
            cb == chain[1].Transactions[1]
        IN /\ appended[1].by = "InitBlockChain"
           /\ Cardinality(DOMAIN db.blocks) = 1
           /\ Len(chain) = 1
           /\ Len(chain[1].PrevHash) = 0
           /\ Len(chain[1].Transactions) = 1
           /\ IsCoinbase(cb)
           /\ Len(cb.Inputs) = 1
           /\ cb.Inputs[1].ID = << >>
           /\ cb.Inputs[1].Out = -1
           /\ cb.Outputs = <<[Value |-> 100, PubKeyHash |-> KeyHash(A)]>>
           /\ Balance(Opened, A) = 100
           /\ \A w \in Wallets :
                 Address(w) # A => Balance(Opened, Address(w)) = 0

\* A genesis block was created for the first wallet and nothing appended.
C9_Witness ==
    /\ Len(appended) = 1
    /\ appended[1].from = Address(1)
    /\ db.lh # << >>
    /\ pc = "idle"

\* C10 -- Proof-of-work soundness: every block CreateBlock returned (the
\* block AddBlock is about to store and every stored block) passes
\* NewProof(block).Validate(): the digest recomputed from its fields and its
\* nonce is below the target.
C10_ProofOfWorkSound ==
    /\ pc = "Update" => Validate(newBlock)
    /\ \A h \in DOMAIN db.blocks : Validate(Stored(h))

\* AddBlock holds a freshly mined block that needed a search (nonce > 0).
C10_Witness ==
    /\ pc = "Update"
    /\ newBlock.Nonce > 0
    /\ newBlock.Hash = Sum256(InitData(newBlock, newBlock.Nonce))

\* No nonce of the searched range gives block b a digest below the target.
Exhausted(b) ==
    \A n \in 0..(MaxInt64 - 1) : SetBytes(Sum256(InitData(b, n))) >= Target

\* C11 -- Mining exhaustion is fatal: when no nonce of the searched range
\* yields a digest below the target the mining call fails and the append is
\* aborted, so AddBlock never goes on to its write transaction with such a
\* block, and no block whose hash misses the target is ever stored.
C11_MiningExhaustionFatal ==
    /\ pc \in {"Update", "Commit"} => ~Exhausted(newBlock)
    /\ \A h \in DOMAIN db.blocks : SetBytes(Stored(h).Hash) < Target

\* The transactions of the chain and the transfer send holds, and the
\* lists of one or two of them a block may carry.
KnownTxs ==
    LET txs == IF db.lh = << >> THEN << >> ELSE ChainTxs(Opened)
    IN {txs[k] : k \in 1..Len(txs)} \cup (IF tx = NoTx THEN {} ELSE {tx})

TxLists == {<<t>> : t \in KnownTxs} \cup {<<t, u>> : t, u \in KnownTxs}

TxIds(txs) == [i \in 1..Len(txs) |-> txs[i].ID]

PrevTXsOf(t) ==
    [id \in {t.Inputs[i].ID : i \in 1..Len(t.Inputs)} |->
        FindTransaction(BC, id).tx]

\* C13 -- Signature round-trip: for the non-coinbase transaction
\* NewTransaction produced (signed through SignTransaction with the sender's
\* key, every referenced transaction in the chain) VerifyTransaction
\* returns true.
C13_SignatureRoundTrip ==
    (call.fn = "VerifyTransaction" /\ call.arg = tx /\ ~IsCoinbase(tx))
        => (~call.panic /\ call.ok)

\* C14 -- Signatures cover the outputs: the digest Sign signs and Verify
\* checks for an input depends on every output, so changing the value of
\* an output after signing changes the digest of every input and Verify
\* returns false.
C14_SignaturesCoverOutputs ==
    (call.fn = "VerifyTransaction" /\ call.arg \in OutputVariants(tx))
        => /\ \A i \in 1..Len(tx.Inputs) :
                 InputDigest(call.arg, i, PrevTXsOf(call.arg))
                     # InputDigest(tx, i, PrevTXsOf(tx))
           /\ ~call.panic
           /\ ~call.ok

\* C15 -- Coinbase exemption: for a coinbase transaction VerifyTransaction
\* returns true and SignTransaction completes and leaves the transaction
\* as it was; no lookup of a predecessor makes either call fail.
C15_CoinbaseExemption ==
    (call.fn # "none" /\ IsCoinbase(call.arg))
        => /\ ~call.panic
           /\ call.fn = "VerifyTransaction" => call.ok
           /\ call.fn = "SignTransaction" => call.tx = call.arg

\* t has an input whose transaction id no transaction of the chain has.
HasDangling(t) ==
    \E i \in 1..Len(t.Inputs) : ~FindTransaction(BC, t.Inputs[i].ID).found

\* C16 -- Dangling input reference: SignTransaction and VerifyTransaction
\* called with a non-coinbase transaction one of whose inputs refers to an
\* id that no transaction of the chain has fail; no signature was written
\* to any input and the store is the one the call began with.
C16_DanglingInputReference ==
    (call.fn # "none" /\ ~IsCoinbase(call.arg) /\ HasDangling(call.arg))
        => /\ call.panic
           /\ call.tx = call.arg
           /\ \A i \in 1..Len(call.tx.Inputs) :
                 call.tx.Inputs[i].Signature = << >>
           /\ db = call.db

\* SignTransaction was called with an unsigned transfer of two or more
\* inputs, the first of which is in the chain and another is not.
C16_Witness ==
    /\ call.fn = "SignTransaction"
    /\ Len(call.arg.Inputs) >= 2
    /\ FindTransaction(BC, call.arg.Inputs[1].ID).found
    /\ HasDangling(call.arg)
    /\ call.panic

\* The stored blocks with an empty PrevHash.
GenesisBlocks == {h \in DOMAIN db.blocks : Len(Stored(h).PrevHash) = 0}

\* What a completed InitBlockChain made of the store it was called on.
OpenedOrCreated ==
    IF dbStart.lh = << >>
    THEN /\ Cardinality(DOMAIN db.blocks) = 1
         /\ db.lh # << >>
         /\ GenesisBlocks = {db.lh[1]}
    ELSE db = dbStart

\* C17 -- Open-or-create: InitBlockChain on a store without a tip key
\* creates exactly one genesis block (empty PrevHash) and sets the tip to
\* its hash, both or neither; on a store with a tip key it leaves blocks
\* and tip as they are and the handle's PrevHash is the stored tip.  After
\* any sequence of opens and appends exactly one stored block has an empty
\* PrevHash.
C17_OpenOrCreate ==
    /\ db.lh = << >> => DOMAIN db.blocks = {}
    /\ db.lh # << >> => Cardinality(GenesisBlocks) = 1
    /\ pc = "NewTransaction" => (OpenedOrCreated /\ bcPrevHash = db.lh[1])
    /\ (pc = "iter.Next" /\ yielded = << >>)
           => (OpenedOrCreated /\ bcPrevHash = db.lh[1])
    /\ (pc = "idle" /\ out.status = "ok" /\ out.msg \in {"Finished!", "Balance"})
           => OpenedOrCreated
    /\ out = Panic("Unable to update database") => db = dbStart

\* A send opened a store that already held a chain of two blocks.
C17_Witness ==
    /\ pc = "NewTransaction"
    /\ Cardinality(DOMAIN dbStart.blocks) = 2
    /\ db = dbStart
    /\ bcPrevHash = db.lh[1]
    /\ Cardinality(GenesisBlocks) = 1

\* C18 -- Iteration: on a chain built by one InitBlockChain and n AddBlock
\* calls, calling Next on a fresh iterator until a block with an empty
\* PrevHash is returned yields exactly n+1 blocks in reverse append order
\* (the PrevHash of each is the hash of the one yielded next), never misses
\* a block and ends at the genesis block.
C18_Iteration ==
    /\ out # Panic("Unable to get next block from database")
    /\ pc \in {"iter.Next", "printed"} =>
          LET n == Len(yielded)
              m == Len(appended)
          IN /\ n <= m
             /\ \A i \in 1..n : yielded[i] = appended[m - i + 1].Hash
             /\ \A i \in 1..(n - 1) : Stored(yielded[i]).PrevHash = yielded[i + 1]
             /\ pc = "iter.Next" =>
                   /\ n < m
                   /\ iterCurrentHash \in DOMAIN db.blocks
             /\ pc = "printed" =>
                   /\ n = m
                   /\ appended[1].by = "InitBlockChain"
                   /\ \A i \in 2..m : appended[i].by = "AddBlock"
                   /\ yielded[n] = appended[1].Hash
                   /\ Len(Stored(yielded[n]).PrevHash) = 0

\* printBlocks went through a chain of a genesis block and two appended
\* blocks.
C18_Witness ==
    /\ pc = "printed"
    /\ Len(yielded) = 3
    /\ Len(appended) = 3
    /\ yielded[1] = db.lh[1]

\* C19 -- Iteration starts at the live tip: after every completed
\* InitBlockChain or AddBlock on a handle the handle's PrevHash is the hash
\* stored under "lh", so a NewIterator starts at the block appended last.
C19_IterationStartsAtLiveTip ==
    /\ pc \in {"NewTransaction", "Success"} =>
          /\ bcPrevHash = db.lh[1]
          /\ NewIterator(BC).CurrentHash = appended[Len(appended)].Hash
    /\ (pc = "iter.Next" /\ yielded = << >>) =>
          /\ bcPrevHash = db.lh[1]
          /\ iterCurrentHash = appended[Len(appended)].Hash

\* An AddBlock completed on a handle that was opened on a chain of two
\* blocks.
C19_Witness ==
    /\ pc = "Success"
    /\ Len(appended) = 3
    /\ appended[3].by = "AddBlock"
    /\ bcPrevHash = appended[3].Hash
    /\ bcPrevHash # dbStart.lh[1]

\* C20 -- Reads never see a tip without its block: a read through the
\* handle that interleaves with an in-flight AddBlock on the same handle
\* never starts from a hash whose block is not committed, and its Next
\* never fails to find the block of the hash it holds.
C20_ReadsSeeCommittedTip ==
    /\ rpc = "iter.Next" => rCurrentHash \in DOMAIN db.blocks
    /\ rpc # "panic"

\* C21 (address validation comes first): a step of create, getbal or send
\* that is given an address whose checksum does not verify, as the address
\* or as either end of the transfer, ends the command with the
\* address-validation error and leaves the store as it was: nothing was
\* opened, created or written.
C21_AddressValidationFirst ==
    [][\A a \in Addresses :
          ~ValidateAddress(a) /\
              (\/ createBlockChain(a)
               \/ getBalance(a)
               \/ \E b \in Addresses, amount \in Amounts :
                     send(a, b, amount) \/ send(b, a, amount))
          => /\ out' = Panic("address not valid")
             /\ pc' = "idle"
             /\ db' = db
             /\ appended' = appended]_vars

\* A command has just failed on its address, on a store that holds a chain.
C21_Witness ==
    /\ out = Panic("address not valid")
    /\ pc = "idle"
    /\ db = dbStart
    /\ db.lh # << >>

\* C22 (validation errors precede mutation): a command that ended on the
\* address check or on the funds check of a transfer has written nothing:
\* the store is the store the command started on, a store without a chain
\* included.
C22_ValidationPrecedesMutation ==
    (out.status = "panic" /\ out.msg \in {"address not valid",
                                           "not enough funds"})
        => /\ db.lh = dbStart.lh
           /\ DOMAIN db.blocks = DOMAIN dbStart.blocks

\* What a second, identical invocation makes of the store the first left,
\* for the commands that open or create the chain and for the listing.
RetryOfCommand ==
    /\ \A a \in Addresses :
          (createBlockChain(a) \/ getBalance(a)) /\ out'.status = "ok"
              => InitBlockChain(db', a).DB = db'
    /\ (printBlocks \/ printBlocks_Next \/ printBlocks_Return) => db' = db

\* C23 (idempotent retry): invoking an operation other than transfer a
\* second time with the same arguments leaves the store as the first
\* invocation left it: open-or-create, the balance query, the listing of
\* the blocks, and AddBlock with the same list of transactions.
C23_IdempotentRetry ==
    [][/\ RetryOfCommand
       /\ call'.fn = "AddBlock again" => db' = call'.db]_vars

\* The handle on store DB.
HandleOn(DB) == [PrevHash |-> DB.lh[1], DB |-> DB]

\* The outputs FindUnspentTxOutputs returns, as a set, each with its place.
UnspentSet(bc, pubKeyHash) ==
    LET at == FindUnspentTxOutputsAt(bc, pubKeyHash)
    IN {at[k] : k \in 1..Len(at)}

\* C24 (transaction order inside a block does not affect UTXO results):
\* after AddBlock stored a block of several transactions, the chain in
\* which the same call stored them in any other order gives, for every key
\* hash, the same set FindUnspentTxOutputs and, for every amount, the same
\* FindSpendableOutputs (accumulated value and selection); one transaction
\* of the block may spend an output of another.
C24_OrderInsideBlock ==
    (pc = "appended" /\ call.fn = "AddBlock" /\ ~call.panic) =>
        \A order \in Perms(1..Len(call.arg)) :
            LET permuted == [i \in 1..Len(call.arg) |-> call.arg[order[i]]]
                other == HandleOn(AddBlock(call.db, permuted))
            IN \A w \in Wallets :
                  LET h == GeneratePublicKeyHash(PublicKey(w))
                  IN /\ UnspentSet(Opened, h) = UnspentSet(other, h)
                     /\ \A amount \in Amounts :
                           FindSpendableOutputs(Opened, h, amount) =
                               FindSpendableOutputs(other, h, amount)

\* C25 (blocks are append-only): no step changes or removes a stored
\* block: every key of the store stays a key and keeps its value, so the
\* set of keys only grows.
C25_AppendOnly ==
    [][\A h \in DOMAIN db.blocks :
          /\ h \in DOMAIN db'.blocks
          /\ db'.blocks[h] = db.blocks[h]]_vars

\* AddBlock has just committed a block to a store that held two, and the
\* three are stored.
C25_Witness ==
    /\ pc = "Success"
    /\ Len(appended) = 3
    /\ Cardinality(DOMAIN db.blocks) = 3
    /\ \A i \in 1..Len(appended) : appended[i].Hash \in DOMAIN db.blocks

\* C26 (transaction id invariant): every transaction of every stored block,
\* coinbase or signed transfer, has as its ID the digest GenerateHash
\* computes from the stored transaction (its encoding with the ID cleared).
C26_TransactionId ==
    db.lh # << >> =>
        LET txs == ChainTxs(Opened)
        IN \A k \in 1..Len(txs) : txs[k].ID = GenerateHash(txs[k])

\* C26, amended: every transaction of every stored block has as its ID the
\* digest GenerateHash computes from the transaction as it was before it
\* was signed (the stored transaction with the signatures of its inputs
\* cleared); for a coinbase transaction, which is never signed, that is the
\* stored transaction itself.
C26_TransactionIdUnsigned ==
    db.lh # << >> =>
        LET txs == ChainTxs(Opened)
        IN \A k \in 1..Len(txs) :
              /\ txs[k].ID = GenerateHash(Unsigned(txs[k]))
              /\ IsCoinbase(txs[k]) => txs[k].ID = GenerateHash(txs[k])

\* A signed transfer and a coinbase transaction are stored.
C26_Witness ==
    /\ db.lh # << >>
    /\ LET txs == ChainTxs(Opened)
       IN /\ \E k \in 1..Len(txs) : IsCoinbase(txs[k])
          /\ \E k \in 1..Len(txs) :
                /\ ~IsCoinbase(txs[k])
                /\ \A i \in 1..Len(txs[k].Inputs) :
                      txs[k].Inputs[i].Signature # << >>

\* The transactions with the given id in the blocks the store holds.
StoredWithID(ID) ==
    {t \in UNION {{Stored(h).Transactions[k] :
                      k \in 1..Len(Stored(h).Transactions)} :
                  h \in DOMAIN db.blocks} : t.ID = ID}

\* C27 (FindTransaction): a call of FindTransaction(ID) returns, with a nil
\* error, a stored transaction whose ID is ID when a block of the chain
\* holds one, and the empty transaction with the not-found error when none
\* does; the store is as it was when the call began.
C27_FindTransaction ==
    call.fn = "FindTransaction" =>
        /\ db = call.db
        /\ IF StoredWithID(call.arg) # {}
           THEN /\ call.ok
                /\ call.tx \in StoredWithID(call.arg)
           ELSE /\ ~call.ok
                /\ call.tx = NoTx

\* The transaction found lies below the tip of a chain of several blocks.
C27_Witness ==
    /\ call.fn = "FindTransaction"
    /\ call.ok
    /\ Cardinality(DOMAIN db.blocks) > 1
    /\ call.tx \notin {Stored(db.lh[1]).Transactions[k] :
                           k \in 1..Len(Stored(db.lh[1]).Transactions)}

\* Block b comes back from its encoding with every field as it was.
RoundTrips(b) ==
    LET d == Deserialize(Serialize(b))
    IN /\ d.Hash = b.Hash
       /\ d.PrevHash = b.PrevHash
       /\ d.Nonce = b.Nonce
       /\ Len(d.Transactions) = Len(b.Transactions)
       /\ \A k \in 1..Len(b.Transactions) :
             /\ d.Transactions[k].ID = b.Transactions[k].ID
             /\ d.Transactions[k].Inputs = b.Transactions[k].Inputs
             /\ d.Transactions[k].Outputs = b.Transactions[k].Outputs

\* The block the last call of AddBlock mined.
BlockOfCall == CreateBlock(call.arg, call.db.lh[1])

Hits(b) ==
    {n \in 0..(MaxInt64 - 1) : SetBytes(Sum256(InitData(b, n))) < Target}

\* Block b carries the least nonce of Hits(b) and the digest of that nonce.
LeastNonce(b) ==
    LET hits == Hits(b)
    IN hits # {} =>
          /\ b.Nonce \in hits
          /\ \A n \in hits : b.Nonce <= n
          /\ b.Hash = Sum256(InitData(b, b.Nonce))

\* C29 (lowest nonce): whenever a nonce of the searched range has a digest
\* strictly below the target, Run ends its search and the block it mined
\* carries the least such nonce together with the digest of exactly that
\* nonce: the block AddBlock is about to write, and the genesis block
\* InitBlockChain has written.
C29_LowestNonce ==
    /\ pc = "Update" => LeastNonce(newBlock)
    /\ (pc \in {"idle", "NewTransaction"} /\ Cardinality(DOMAIN db.blocks) = 1)
          => LeastNonce(Stored(db.lh[1]))

\* Run has just mined a block after passing over at least two nonces, and
\* a stored block was mined at nonce 0.
C29_Witness ==
    /\ pc = "Update"
    /\ newBlock.Nonce >= 2
    /\ \A n \in 0..(newBlock.Nonce - 1) : n \notin Hits(newBlock)
    /\ \E h \in DOMAIN db.blocks : Stored(h).Nonce = 0

\* C30 (TrimmedCopy): for the transaction a call of SignTransaction or
\* VerifyTransaction made its trimmed copy of, the copy has as many inputs
\* as the transaction, each with the same referenced id and output index
\* and with signature and public key empty, and its output list is the
\* transaction's output list.
C30_TrimmedCopy ==
    (call.fn \in {"SignTransaction", "VerifyTransaction"} /\ ~call.panic
       /\ ~IsCoinbase(call.arg)) =>
        LET txCopy == TrimmedCopy(call.arg)
        IN /\ Len(txCopy.Inputs) = Len(call.arg.Inputs)
           /\ \A i \in 1..Len(call.arg.Inputs) :
                 /\ txCopy.Inputs[i].ID = call.arg.Inputs[i].ID
                 /\ txCopy.Inputs[i].Out = call.arg.Inputs[i].Out
                 /\ txCopy.Inputs[i].Signature = << >>
                 /\ txCopy.Inputs[i].PubKey = << >>
           /\ txCopy.Outputs = call.arg.Outputs

\* The lock hash of the stored output that input in refers to.
RefLock(in) ==
    (CHOOSE p \in StoredWithID(in.ID) : TRUE).Outputs[in.Out + 1].PubKeyHash

\* What is hashed for input i of transaction t: the inputs of t by id and
\* index, the lock hash of the output input i refers to in the public-key
\* field of input i, every other public key and every signature empty.
SigningPayload(t, i) ==
    [ID |-> << >>,
     Inputs |-> [j \in 1..Len(t.Inputs) |->
                    [ID |-> t.Inputs[j].ID, Out |-> t.Inputs[j].Out,
                     Signature |-> << >>,
                     PubKey |-> IF j = i THEN RefLock(t.Inputs[i])
                                ELSE << >>]],
     Outputs |-> TrimmedCopy(t).Outputs]

\* C31 (per-input signing payload): for every input i of a transaction
\* SignTransaction signed, the digest Sign and Verify compute is the digest
\* of the trimmed copy with the lock hash of the output input i refers to
\* in input i's public-key field and every other public key and signature
\* empty, and the signature left on input i of the transaction is the
\* signer's signature of that digest.
C31_PerInputSigningPayload ==
    (call.fn = "SignTransaction" /\ ~call.panic /\ ~IsCoinbase(call.arg)) =>
        \A i \in 1..Len(call.arg.Inputs) :
            LET digest == Sum256(TxSerialize(SigningPayload(call.arg, i)))
            IN /\ InputDigest(call.arg, i, PrevTXsOf(call.arg)) = digest
               /\ call.tx.Inputs[i].Signature =
                      EcdsaSign(PrivateKey(WalletOf(cmd.from)), digest)

\* SignTransaction has signed a transaction of two inputs; the two digests
\* differ.
C31_Witness ==
    /\ call.fn = "SignTransaction"
    /\ ~call.panic
    /\ ~IsCoinbase(call.arg)
    /\ Len(call.arg.Inputs) = 2
    /\ call.tx.Inputs[1].Signature # call.tx.Inputs[2].Signature
    /\ call.tx.Inputs[1].Signature # << >>

\* The signature input i of t carries is a signature of the digest of
\* input i under the public key input i carries.
ValidInput(t, i) ==
    EcdsaVerify(t.Inputs[i].PubKey,
                Sum256(TxSerialize(SigningPayload(t, i))),
                t.Inputs[i].Signature)

\* C32 (Verify accepts only fully signed transactions): when
\* VerifyTransaction returns true for a non-coinbase transaction, every
\* input carries a valid signature of its digest under the key it carries;
\* with one input that does not, the call returns false.
C32_VerifyOnlyFullySigned ==
    (call.fn = "VerifyTransaction" /\ ~call.panic /\ ~IsCoinbase(call.arg)) =>
        (call.ok => \A i \in 1..Len(call.arg.Inputs) :
                       ValidInput(call.arg, i))

\* VerifyTransaction returned false for a transaction of two inputs of
\* which the first carries a valid signature and the second none.
C32_Witness ==
    /\ call.fn = "VerifyTransaction"
    /\ ~call.panic
    /\ Len(call.arg.Inputs) = 2
    /\ ValidInput(call.arg, 1)
    /\ ~ValidInput(call.arg, 2)
    /\ ~call.ok

\* C35 (ownership is enforced by verification): when VerifyTransaction
\* returns true for a non-coinbase transaction, the hash of the public key
\* of every input is the lock hash of the output the input refers to; a
\* transaction that spends an output locked to another key's hash, with
\* the spender's own key on the input and the spender's own signature, is
\* not accepted.
C35_OwnershipEnforced ==
    (call.fn = "VerifyTransaction" /\ ~call.panic /\ ~IsCoinbase(call.arg)) =>
        (call.ok => \A i \in 1..Len(call.arg.Inputs) :
                       UsesKey(call.arg.Inputs[i], RefLock(call.arg.Inputs[i])))

\* VerifyTransaction returned false for a transaction whose input carries
\* a key that does not hash to the lock of the output it spends, and a
\* valid signature under that key.
C35_Witness ==
    /\ call.fn = "VerifyTransaction"
    /\ ~call.panic
    /\ ~IsCoinbase(call.arg)
    /\ \A i \in 1..Len(call.arg.Inputs) :
          /\ ~UsesKey(call.arg.Inputs[i], RefLock(call.arg.Inputs[i]))
          /\ ValidInput(call.arg, i)
    /\ ~call.ok

\* The entries of a selection: <<id, k>> for the k-th index listed for id.
SelectedEntries(outs) ==
    UNION {{<<id, k>> : k \in 1..Len(outs[id])} : id \in DOMAIN outs}

\* The stored output a selected entry names.
SelectedOutput(outs, e) ==
    (CHOOSE p \in StoredWithID(e[1]) : TRUE).Outputs[outs[e[1]][e[2]] + 1]

\* C33 (spend selection): for the sender and amount of a transfer,
\* FindSpendableOutputs returns a total equal to the sum of the values of
\* the selected outputs, every selected output is locked to the sender's
\* key hash, no (transaction id, output index) pair is selected twice, and
\* a total that reaches the amount does not reach it without the output
\* selected last.
C33_SpendSelection ==
    pc = "NewTransaction" =>
        LET h == GeneratePublicKeyHash(PublicKey(WalletOf(cmd.from)))
            r == FindSpendableOutputs(BC, h, cmd.amount)
            entries == SelectedEntries(r.outs)
        IN /\ r.acc = SumValues({[e |-> e, out |-> SelectedOutput(r.outs, e)]
                                    : e \in entries})
           /\ \A e \in entries :
                 IsLockedWithKey(SelectedOutput(r.outs, e), h)
           /\ \A id \in DOMAIN r.outs :
                 \A j, k \in 1..Len(r.outs[id]) :
                    j # k => r.outs[id][j] # r.outs[id][k]
           /\ r.acc >= cmd.amount =>
                 \E e \in entries :
                    r.acc - SelectedOutput(r.outs, e).Value < cmd.amount

\* C34 (address and lock hash agree): for every block committed with an
\* output created for the address of a wallet (the reward of a genesis
\* block, the payment of a transfer), locking to that address gives the
\* hash of the wallet's public key, and the stored output is matched by
\* IsLockedWithKey with the key hash the transfer path derives
\* (GeneratePublicKeyHash of the wallet's key) and with the one the balance
\* path derives (the decoded address without version and checksum).
C34_AddressLockAgree ==
    \A k \in 1..Len(appended) :
       LET a == appended[k]
           created == Stored(a.Hash).Transactions[1].Outputs[1]
       IN a.to \in {Address(w) : w \in Wallets} =>
             LET pk == PublicKey(WalletOf(a.to))
                 decoded == Base58Decode(a.to)
             IN /\ Lock(a.to) = GeneratePublicKeyHash(pk)
                /\ IsLockedWithKey(created, GeneratePublicKeyHash(pk))
                /\ IsLockedWithKey(created,
                                   SubSeq(decoded, 2,
                                          Len(decoded) - EnvChecksumLength))

\* A transfer to another wallet was committed after a genesis block, so
\* outputs were created for two different addresses.
C34_Witness ==
    \E j, k \in 1..Len(appended) :
       /\ appended[j].by = "InitBlockChain"
       /\ appended[k].by = "AddBlock"
       /\ appended[k].to \in {Address(w) : w \in Wallets}
       /\ appended[k].to # appended[j].to
       /\ IsLockedWithKey(Stored(appended[k].Hash).Transactions[1].Outputs[1],
                          KeyHash(appended[k].to))

\* The balance FindUnspentTxOutputs reports for wallet w on the stored chain.
ReportedBalance(w) ==
    LET outs == FindUnspentTxOutputs(Opened,
                                     GeneratePublicKeyHash(PublicKey(w)))
    IN SumSeq([k \in 1..Len(outs) |-> outs[k].Value])

\* The number of coinbase transactions of the stored chain.
CoinbaseCount ==
    LET txs == ChainTxs(Opened)
    IN Cardinality({k \in 1..Len(txs) : IsCoinbase(txs[k])})

\* C36 (total supply is conserved): between commands, on a store that
\* holds a chain, the balances FindUnspentTxOutputs reports for the lock
\* hashes of the wallets sum to 100 times the number of coinbase
\* transactions of the chain.
C36_TotalSupply ==
    (pc = "idle" /\ db.lh # << >>) =>
        SumSeq([w \in 1..NumWallets |-> ReportedBalance(w)])
            = Reward * CoinbaseCount

\* The stored output the pair ref = <<transaction id, output index>> names.
ReferencedOutput(ref) ==
    (CHOOSE p \in StoredWithID(ref[1]) : TRUE).Outputs[ref[2] + 1]

\* The pairs the inputs of transaction t reference.
ReferencedBy(t) == {<<t.Inputs[i].ID, t.Inputs[i].Out>> : i \in 1..Len(t.Inputs)}

\* C37 (transfers spend only the sender's outputs and balance their
\* value): every input of the transaction NewTransaction returned
\* references an output of a transaction stored in the chain that is locked
\* to the key hash of the sender, and the values of the transaction's
\* outputs add up to the values of the outputs its inputs reference.
C37_TransferBalanced ==
    pc = "AddBlock" =>
        /\ \A ref \in ReferencedBy(tx) :
              /\ StoredWithID(ref[1]) # {}
              /\ \A p \in StoredWithID(ref[1]) : ref[2] + 1 <= Len(p.Outputs)
              /\ IsLockedWithKey(ReferencedOutput(ref), KeyHash(cmd.from))
        /\ SumSeq([k \in 1..Len(tx.Outputs) |-> tx.Outputs[k].Value])
              = SumValues({[ref |-> ref, out |-> ReferencedOutput(ref)] :
                              ref \in ReferencedBy(tx)})

\* C38 (read-only commands do not write): a step of the balance query or
\* of the block listing leaves the store, blocks and tip, as it was, on a
\* store that holds no chain included.
C38_ReadOnlyCommands ==
    [][((\E address \in Addresses : getBalance(address))
           \/ printBlocks \/ printBlocks_Next \/ printBlocks_Return)
          => db' = db]_vars

\* The hashes reached from the tip of the store by following PrevHash.
ReachableFromTip ==
    LET chain == IterBlocks(db, db.lh[1])
    IN {chain[k].Hash : k \in 1..Len(chain)}

\* C39 (the chain stays linear under interleaved appends): when the
\* AddBlock call of send and a second AddBlock call on the same store have
\* both returned, every stored block is reached from the tip by following
\* PrevHash, and no two stored blocks have the same PrevHash.
C39_LinearUnderInterleaving ==
    (pc = "Success" /\ pc2 = "returned") =>
        /\ DOMAIN db.blocks \subseteq ReachableFromTip
        /\ \A g, h \in DOMAIN db.blocks :
              g # h => Stored(g).PrevHash # Stored(h).PrevHash
====
